---- MODULE Spec2Model ----
(***************************************************************************)
(* The status-line pipeline of ccline: main() loads the configuration,     *)
(* applies the theme and NewApi CLI overrides, reads the session record    *)
(* from stdin, collects every enabled segment and prints one line.  The    *)
(* NewApi cost segment (a networked segment) is modelled in full.          *)
(***************************************************************************)
EXTENDS Integers, Sequences, FiniteSets, TLC

(***************************************************************************)
(* Bounds of the model.                                                    *)
(***************************************************************************)
\* longest configured segment list
MaxSegments == 3
\* number of segment kinds other than the cost segment
NumOtherSegments == 2
\* external edits of the persisted configuration during one invocation
MaxEdits == 1
\* quotas k * QuotaStep, k in -1 .. MaxQuotaIndex, are answered by the remote
MaxQuotaIndex == 10

(***************************************************************************)
(* State of one invocation.                                                *)
(***************************************************************************)
VARIABLES
    cli,            \* the parsed command line
    persisted,      \* the configuration file: None (unreadable) or Some(config)
    stdin,          \* [terminal, data]: the standard input of the process
    remote,         \* how the accounting endpoint answers a request
    editsLeft,      \* edits another process may still make to the file
    pc,             \* position of main: start, theme, override, stdin, collect, done
    config,         \* main's `config`
    startup,        \* [done, result]: what Config::load returned at line 100
    trace,          \* per configuration entry walked: [id, invoked, segment, result]
    segments_data,  \* main's `segments_data`
    loads,          \* number of Config::load calls made
    requests,       \* the GET requests sent
    stdout,         \* the status lines printed (line 200)
    exit            \* running, ok (main returned Ok) or err

vars == <<cli, persisted, stdin, remote, editsLeft, pc, config, startup, trace,
          segments_data, loads, requests, stdout, exit>>

inputs == <<cli, stdin, remote>>

(***************************************************************************)
(* Option<T>, serde_json::Value and the option maps of a segment entry.    *)
(***************************************************************************)
None == <<>>
Some(x) == <<x>>
IsSome(o) == Len(o) = 1
Unwrap(o) == o[1]

JStr(s) == [t |-> "str", s |-> s, n |-> 0]
JInt(n) == [t |-> "int", s |-> "", n |-> n]
\* a number with a fractional part, n + 0.5
JFloat(n) == [t |-> "float", s |-> "", n |-> n]

\* serde_json::Value::as_str
as_str(v) == IF v.t = "str" THEN Some(v.s) ELSE None
\* serde_json::Value::as_u64: only a non-negative integer has one
as_u64(v) == IF v.t = "int" /\ v.n >= 0 THEN Some(v.n) ELSE None

\* HashMap::get and HashMap::insert on an options map (a function whose
\* domain is the set of keys present)
Get(options, k) == IF k \in DOMAIN options THEN Some(options[k]) ELSE None
Insert(options, k, v) ==
    [x \in (DOMAIN options) \cup {k} |-> IF x = k THEN v ELSE options[x]]
NoOptions == [x \in {} |-> JInt(0)]

CostId == "NewApiCost"
AllOtherIds == <<"Model", "Git", "Session", "Directory">>
OtherIds == {AllOtherIds[i] : i \in 1..NumOtherSegments}
SegmentIds == OtherIds \cup {CostId}

(***************************************************************************)
(* Decimal text.                                                           *)
(***************************************************************************)
DigitChar(d) == SubSeq("0123456789", d + 1, d + 1)

RECURSIVE NatToStr(_)
NatToStr(n) == IF n < 10 THEN DigitChar(n)
               ELSE NatToStr(n \div 10) \o DigitChar(n % 10)

RECURSIVE Pow10(_)
Pow10(k) == IF k = 0 THEN 1 ELSE 10 * Pow10(k - 1)

\* n written with exactly w digits (n < 10^w)
RECURSIVE PadNat(_, _)
PadNat(n, w) == IF w = 0 THEN "" ELSE PadNat(n \div 10, w - 1) \o DigitChar(n % 10)

RECURSIVE StripZeros(_)
StripZeros(s) == IF Len(s) > 0 /\ SubSeq(s, Len(s), Len(s)) = "0"
                 THEN StripZeros(SubSeq(s, 1, Len(s) - 1)) ELSE s

(***************************************************************************)
(* The f64 arithmetic of the cost segment.  A cost is the double nearest   *)
(* to q / 500000 (the division is correctly rounded and every i64 of the   *)
(* model converts to f64 exactly); it is represented by its numerator q.   *)
(***************************************************************************)
QUOTA_PER_UNIT == 500000

\* faulty variant: the division done on integers, `quota / 500000` without `as f64`
F64Div_Integer(quota) == [q |-> (quota \div QUOTA_PER_UNIT) * QUOTA_PER_UNIT]

\* api_response.data.quota as f64 / 500000.0
F64Div(quota) == [q |-> quota]

\* cost == 0.0
F64IsZero(cost) == cost.q = 0
\* cost < 0.01: rounding is monotone and 0.01 is itself the double nearest
\* to 5000 / 500000, so the comparison is that of the exact quotients
F64LtCent(cost) == cost.q * 100 < QUOTA_PER_UNIT

RECURSIVE Pow2Mod25(_)
Pow2Mod25(k) == IF k = 0 THEN 1 ELSE (2 * Pow2Mod25(k - 1)) % 25

\* floor(log2(n / 200)) for n >= 1
RECURSIVE Log2Up(_, _)
Log2Up(n, e) == IF n >= 400 THEN Log2Up(n \div 2, e + 1) ELSE e
RECURSIVE Log2Down(_, _)
Log2Down(n, e) == IF n >= 200 THEN e ELSE Log2Down(2 * n, e - 1)
Exponent200(n) == IF n >= 200 THEN Log2Up(n, 0) ELSE Log2Down(n, 0)

\* Whether the double nearest to n / 200 (n odd, a tie between two
\* hundredths) lies above it (1), below it (-1) or is exact (0).  With
\* e = floor(log2(n/200)) the 53-bit significand is n * 2^(52-e) / 200
\* = n * 2^(49-e) / 25 rounded to an integer, so the direction is decided
\* by the remainder of n * 2^(49-e) modulo 25.
TieSide(n) ==
    LET rem == ((n % 25) * Pow2Mod25(49 - Exponent200(n))) % 25
    IN  IF rem = 0 THEN 0 ELSE IF 2 * rem > 25 THEN 1 ELSE -1

\* the hundredths printed by {:.2}: the exact value of the double, rounded
\* to nearest, an exact tie to even
Hundredths(cost) ==
    LET a    == IF cost.q < 0 THEN -cost.q ELSE cost.q
        unit == QUOTA_PER_UNIT \div 100
        h    == a \div unit
        r    == a % unit
    IN  IF 2 * r < unit THEN h
        ELSE IF 2 * r > unit THEN h + 1
        ELSE CASE TieSide(2 * h + 1) = 1  -> h + 1
               [] TieSide(2 * h + 1) = -1 -> h
               [] OTHER -> IF h % 2 = 1 THEN h + 1 ELSE h

\* format!("{:.2}", cost)
Format2(cost) ==
    LET h == Hundredths(cost)
    IN  (IF cost.q < 0 THEN "-" ELSE "")
        \o NatToStr(h \div 100) \o "." \o PadNat(h % 100, 2)

\* cost.to_string(): the shortest decimal that reads back as the same
\* double.  q / 500000 has at most six decimals, far fewer than the 15
\* digits a double always preserves, so that decimal is the exact quotient.
F64ToString(cost) ==
    LET a      == IF cost.q < 0 THEN -cost.q ELSE cost.q
        micros == a * (Pow10(6) \div QUOTA_PER_UNIT)
        frac   == StripZeros(PadNat(micros % Pow10(6), 6))
    IN  (IF cost.q < 0 THEN "-" ELSE "")
        \o NatToStr(micros \div Pow10(6))
        \o (IF frac = "" THEN "" ELSE "." \o frac)

(***************************************************************************)
(* The cost segment (NewApiCostSegment).                                   *)
(***************************************************************************)
DEFAULT_TIMEOUT_SECS == 5

new == [base_url |-> None, user_token |-> None, user_id |-> None,
        token_name |-> None, provider |-> None]

OptionKeys == {"base_url", "user_token", "user_id", "token_name", "provider"}

\* every option that is present replaces the field, by its string value or
\* by None when the value is not a string
with_config_from_options(self, options) ==
    [k \in OptionKeys |->
        IF k \in DOMAIN options THEN as_str(options[k]) ELSE self[k]]

\* the first entry of a segment list with the given id
FindSegment(segments, id) ==
    LET hits == {i \in 1..Len(segments) : segments[i].id = id}
    IN  IF hits = {} THEN None
        ELSE Some(CHOOSE i \in hits : \A j \in hits : i <= j)

\* faulty variant: the timeout taken from main's in-memory configuration
get_timeout_from_config_InMemory(load) ==
    LET found == FindSegment(config.segments, CostId)
    IN  IF ~IsSome(found) THEN None
        ELSE LET options == config.segments[Unwrap(found)].options
             IN  IF "timeout" \in DOMAIN options
                 THEN as_u64(options["timeout"]) ELSE None

\* `load` is what Config::load() returns: None when the file cannot be
\* read, Some(config) otherwise
get_timeout_from_config(load) ==
    IF ~IsSome(load) THEN None
    ELSE LET found == FindSegment(Unwrap(load).segments, CostId)
         IN  IF ~IsSome(found) THEN None
             ELSE LET options == Unwrap(load).segments[Unwrap(found)].options
                  IN  IF "timeout" \in DOMAIN options
                      THEN as_u64(options["timeout"]) ELSE None

\* the request URL; T0 and T1 stand for today's start and the current time
BuildUrl(self) ==
    Unwrap(self.base_url)
    \o "/api/log/self/stat?start_timestamp=T0&end_timestamp=T1&type=2"
    \o (IF IsSome(self.token_name) /\ Unwrap(self.token_name) # ""
        THEN "&token_name=" \o Unwrap(self.token_name) ELSE "")

\* what a call costs and yields: the value returned, the number of
\* Config::load calls made and the GET requests sent
Outcome(value, nloads, gets) == [value |-> value, loads |-> nloads, gets |-> gets]

\* faulty variant: the success flag of the body is not checked
ReadResponse_IgnoresSuccess(response) ==
    IF response.kind # "http" \/ response.status >= 400 THEN None
    ELSE IF response.status # 200 THEN None
    ELSE IF response.body # "json" THEN None
    ELSE Some(F64Div(response.quota))

\* the answer of the remote endpoint turned into Option<f64>
\* (call().ok()?, the status check, into_json().ok()?, the success flag)
ReadResponse(response) ==
    IF response.kind # "http" \/ response.status >= 400 THEN None
    ELSE IF response.status # 200 THEN None
    ELSE IF response.body # "json" THEN None
    ELSE IF ~response.success THEN None
    ELSE Some(F64Div(response.quota))

SendRequest(self, load, response, user_id) ==
    LET timeout == get_timeout_from_config(load)
        timeout_secs == IF IsSome(timeout) THEN Unwrap(timeout)
                        ELSE DEFAULT_TIMEOUT_SECS
        request == [url |-> BuildUrl(self),
                    authorization |-> "Bearer " \o Unwrap(self.user_token),
                    new_api_user |-> user_id,
                    timeout_secs |-> timeout_secs]
    IN  Outcome(ReadResponse(response), 1, <<request>>)

\* faulty variant: user_id is not validated, a missing one is sent as ""
fetch_today_cost_NoUserIdCheck(self, load, response) ==
    IF ~IsSome(self.base_url) THEN Outcome(None, 0, <<>>)
    ELSE IF ~IsSome(self.user_token) THEN Outcome(None, 0, <<>>)
    ELSE SendRequest(self, load, response,
                     IF IsSome(self.user_id) THEN Unwrap(self.user_id) ELSE "")

\* faulty variant: a failed request is sent a second time
fetch_today_cost_Retry(self, load, response) ==
    IF ~IsSome(self.base_url) THEN Outcome(None, 0, <<>>)
    ELSE IF ~IsSome(self.user_token) THEN Outcome(None, 0, <<>>)
    ELSE IF ~IsSome(self.user_id) THEN Outcome(None, 0, <<>>)
    ELSE LET first == SendRequest(self, load, response, Unwrap(self.user_id))
         IN  IF IsSome(first.value) THEN first
             ELSE Outcome(first.value, 1, first.gets \o first.gets)

fetch_today_cost(self, load, response) ==
    IF ~IsSome(self.base_url) THEN Outcome(None, 0, <<>>)
    ELSE IF ~IsSome(self.user_token) THEN Outcome(None, 0, <<>>)
    ELSE IF ~IsSome(self.user_id) THEN Outcome(None, 0, <<>>)
    ELSE SendRequest(self, load, response, Unwrap(self.user_id))

\* the currency sign of the primary text, U+00A5; texts of the model are
\* kept to ASCII and the sign is written Y
Yen == "Y"

\* faulty variant: the threshold test is `cost <= 0.01`
CostPrimary_AtMostCent(cost) ==
    IF F64IsZero(cost) \/ cost.q * 100 <= QUOTA_PER_UNIT
    THEN Yen \o "0" ELSE Yen \o Format2(cost)

CostPrimary(cost) ==
    IF F64IsZero(cost) \/ F64LtCent(cost) THEN Yen \o "0" ELSE Yen \o Format2(cost)

CostSecondary(self) == IF IsSome(self.provider) THEN Unwrap(self.provider) ELSE ""

\* faulty variant: the provider entry is always inserted, empty when there is none
CostMetadata_AlwaysProvider(self, cost) ==
    [k \in {"cost", "provider"} |->
        IF k = "cost" THEN F64ToString(cost)
        ELSE IF IsSome(self.provider) THEN Unwrap(self.provider) ELSE ""]

CostMetadata(self, cost) ==
    [k \in {"cost"} \cup (IF IsSome(self.provider) THEN {"provider"} ELSE {}) |->
        IF k = "cost" THEN F64ToString(cost) ELSE Unwrap(self.provider)]

collect(self, load, response) ==
    LET fetched == fetch_today_cost(self, load, response)
    IN  IF ~IsSome(fetched.value) THEN fetched
        ELSE LET cost == Unwrap(fetched.value)
             IN  Outcome(Some([primary |-> CostPrimary(cost),
                               secondary |-> CostSecondary(self),
                               metadata |-> CostMetadata(self, cost)]),
                         fetched.loads, fetched.gets)

(***************************************************************************)
(* Configuration, theme presets, renderer and the other segments.          *)
(***************************************************************************)
Entry(id, enabled, options) == [id |-> id, enabled |-> enabled, options |-> options]

\* ThemePresets::get_theme: a whole configuration, segment list included
get_theme(theme) ==
    [theme |-> theme,
     segments |-> <<Entry(AllOtherIds[1], TRUE, NoOptions),
                    Entry(CostId, TRUE, NoOptions)>>]

\* Config::default()
DefaultConfig == get_theme("default")

\* StatusLineGenerator::generate: the results in the order given, styled by
\* the theme of the configuration
generate(cfg, results) ==
    [theme |-> cfg.theme,
     items |-> [i \in 1..Len(results) |->
                  [id |-> results[i].id, primary |-> results[i].data.primary,
                   secondary |-> results[i].data.secondary]]]

\* what another segment's collect can return: no result, or its data
OtherData(id) == [primary |-> id, secondary |-> "",
                  metadata |-> [k \in {} |-> ""]]
OtherResults(id) == {None, Some(OtherData(id))}

CliFlags == {"newapi_base_url", "newapi_user_token", "newapi_user_id",
             "newapi_token_name", "newapi_provider"}
\* the option a flag overwrites
FlagOption(flag) == SubSeq(flag, 8, Len(flag))

NoConfig == [theme |-> "", segments |-> <<>>]

InitFrom(Inputs) ==
    /\ \E i \in Inputs :
          /\ cli = i.cli
          /\ persisted = i.persisted
          /\ stdin = i.stdin
          /\ remote = i.remote
          /\ editsLeft = i.editsLeft
    /\ pc = "start"
    /\ config = NoConfig
    /\ startup = [done |-> FALSE, result |-> None]
    /\ trace = <<>>
    /\ segments_data = <<>>
    /\ loads = 0
    /\ requests = <<>>
    /\ stdout = <<>>
    /\ exit = "running"

(***************************************************************************)
(* main                                                                    *)
(***************************************************************************)
\* --init, --print, --check, --config, --update, --patch: the command runs
\* and main returns; --print and --check load the configuration
ManagementCommand ==
    /\ pc = "start"
    /\ cli.mgmt # "none"
    /\ loads' = loads + (IF cli.mgmt \in {"print", "check"} THEN 1 ELSE 0)
    /\ exit' \in (IF cli.mgmt = "check" /\ ~IsSome(persisted) THEN {"err"}
                  ELSE IF cli.mgmt = "update" THEN {"ok"}
                  ELSE {"ok", "err"})
    /\ pc' = "done"
    /\ UNCHANGED <<inputs, persisted, editsLeft, config, startup, trace,
                   segments_data, requests, stdout>>

\* let mut config = Config::load().unwrap_or_else(|_| Config::default());
LoadConfig ==
    /\ pc = "start"
    /\ cli.mgmt = "none"
    /\ startup' = [done |-> TRUE, result |-> persisted]
    /\ config' = IF IsSome(persisted) THEN Unwrap(persisted) ELSE DefaultConfig
    /\ loads' = loads + 1
    /\ pc' = "theme"
    /\ UNCHANGED <<inputs, persisted, editsLeft, trace, segments_data,
                   requests, stdout, exit>>

ApplyThemeOverride ==
    /\ pc = "theme"
    /\ config' = IF IsSome(cli.theme) THEN get_theme(Unwrap(cli.theme)) ELSE config
    /\ pc' = "override"
    /\ UNCHANGED <<inputs, persisted, editsLeft, startup, trace, segments_data,
                   loads, requests, stdout, exit>>

\* the options inserted into the cost entry, one flag after the other
RECURSIVE InsertFlags(_, _, _)
InsertFlags(options, c, flags) ==
    IF flags = {} THEN options
    ELSE LET f == CHOOSE x \in flags : TRUE
             o == IF IsSome(c[f])
                  THEN Insert(options, FlagOption(f), JStr(Unwrap(c[f])))
                  ELSE options
         IN  InsertFlags(o, c, flags \ {f})

OverrideOptions(options, c) ==
    LET o == InsertFlags(options, c, CliFlags)
    IN  IF IsSome(c.newapi_quota_per_unit)
        THEN Insert(o, "quota_per_unit", JInt(Unwrap(c.newapi_quota_per_unit)))
        ELSE o

\* faulty variant: the provider flag is missing from the condition
AnyNewApiFlag_NoProvider(c) ==
    \/ IsSome(c.newapi_base_url)
    \/ IsSome(c.newapi_user_token)
    \/ IsSome(c.newapi_user_id)
    \/ IsSome(c.newapi_token_name)
    \/ IsSome(c.newapi_quota_per_unit)

AnyNewApiFlag(c) ==
    \/ IsSome(c.newapi_base_url)
    \/ IsSome(c.newapi_user_token)
    \/ IsSome(c.newapi_user_id)
    \/ IsSome(c.newapi_token_name)
    \/ IsSome(c.newapi_provider)
    \/ IsSome(c.newapi_quota_per_unit)

OverrideConfig(cfg, c) ==
    LET found == FindSegment(cfg.segments, CostId)
    IN  IF AnyNewApiFlag(c) /\ IsSome(found)
        THEN [cfg EXCEPT !.segments[Unwrap(found)].options = OverrideOptions(@, c)]
        ELSE cfg

ApplyNewApiOverrides ==
    /\ pc = "override"
    /\ config' = OverrideConfig(config, cli)
    /\ pc' = "stdin"
    /\ UNCHANGED <<inputs, persisted, editsLeft, startup, trace, segments_data,
                   loads, requests, stdout, exit>>

\* stdin is a terminal: the menu (feature tui) or a usage message; the
\* menu's "check" entry loads the configuration and may fail
NoInputData ==
    /\ pc = "stdin"
    /\ stdin.terminal
    /\ \E choice \in {"none", "check"} :
          /\ loads' = loads + (IF choice = "check" THEN 1 ELSE 0)
          /\ exit' \in (IF choice = "check" /\ ~IsSome(persisted) THEN {"err"}
                        ELSE {"ok", "err"})
    /\ pc' = "done"
    /\ UNCHANGED <<inputs, persisted, editsLeft, config, startup, trace,
                   segments_data, requests, stdout>>

\* faulty variant: a record that cannot be parsed does not end the invocation
ReadInput_IgnoresError ==
    /\ pc = "stdin"
    /\ ~stdin.terminal
    /\ pc' = "collect"
    /\ UNCHANGED <<inputs, persisted, editsLeft, config, startup, trace,
                   segments_data, loads, requests, stdout, exit>>

\* let input: InputData = serde_json::from_reader(stdin.lock())?;
ReadInput ==
    /\ pc = "stdin"
    /\ ~stdin.terminal
    /\ IF stdin.data = "valid"
       THEN pc' = "collect" /\ exit' = exit
       ELSE pc' = "done" /\ exit' = "err"
    /\ UNCHANGED <<inputs, persisted, editsLeft, config, startup, trace,
                   segments_data, loads, requests, stdout>>

(***************************************************************************)
(* collect_all_segments: one configuration entry per step, in order.       *)
(***************************************************************************)
NextEntry == config.segments[Len(trace) + 1]

Walked(entry, invoked, segment, result) ==
    /\ trace' = Append(trace, [id |-> entry.id, invoked |-> invoked,
                               segment |-> segment, result |-> result])
    /\ segments_data' = IF IsSome(result)
                        THEN Append(segments_data,
                                    [id |-> entry.id, data |-> Unwrap(result)])
                        ELSE segments_data

SkipDisabledSegment ==
    /\ pc = "collect"
    /\ Len(trace) < Len(config.segments)
    /\ ~NextEntry.enabled
    /\ Walked(NextEntry, FALSE, new, None)
    /\ UNCHANGED <<inputs, persisted, editsLeft, pc, config, startup, loads,
                   requests, stdout, exit>>

CollectOtherSegment ==
    /\ pc = "collect"
    /\ Len(trace) < Len(config.segments)
    /\ NextEntry.enabled
    /\ NextEntry.id # CostId
    /\ \E result \in OtherResults(NextEntry.id) :
          Walked(NextEntry, TRUE, new, result)
    /\ UNCHANGED <<inputs, persisted, editsLeft, pc, config, startup, loads,
                   requests, stdout, exit>>

CollectCostSegment ==
    /\ pc = "collect"
    /\ Len(trace) < Len(config.segments)
    /\ NextEntry.enabled
    /\ NextEntry.id = CostId
    /\ LET segment == with_config_from_options(new, NextEntry.options)
           done    == collect(segment, persisted, remote)
       IN  /\ Walked(NextEntry, TRUE, segment, done.value)
           /\ loads' = loads + done.loads
           /\ requests' = requests \o done.gets
    /\ UNCHANGED <<inputs, persisted, editsLeft, pc, config, startup, stdout, exit>>

\* faulty variant: the generator is given an empty list, not segments_data
RenderStatusLine_EmptyList ==
    /\ pc = "collect"
    /\ Len(trace) = Len(config.segments)
    /\ stdout' = Append(stdout, generate(config, <<>>))
    /\ exit' = "ok"
    /\ pc' = "done"
    /\ UNCHANGED <<inputs, persisted, editsLeft, config, startup, trace,
                   segments_data, loads, requests>>

\* generator.generate(segments_data); println!; Ok(())
RenderStatusLine ==
    /\ pc = "collect"
    /\ Len(trace) = Len(config.segments)
    /\ stdout' = Append(stdout, generate(config, segments_data))
    /\ exit' = "ok"
    /\ pc' = "done"
    /\ UNCHANGED <<inputs, persisted, editsLeft, config, startup, trace,
                   segments_data, loads, requests>>

(***************************************************************************)
(* Another process rewrites the configuration file while main runs: the    *)
(* file becomes unreadable, or the timeout of its cost entry changes.      *)
(***************************************************************************)
Edits(p) ==
    {None} \cup
    (IF ~IsSome(p) THEN {Some(DefaultConfig)}
     ELSE LET found == FindSegment(Unwrap(p).segments, CostId)
          IN  IF ~IsSome(found) THEN {}
              ELSE {Some([Unwrap(p) EXCEPT !.segments[Unwrap(found)].options =
                             Insert(@, "timeout", JInt(7))])})

ExternalEdit ==
    /\ editsLeft > 0
    /\ pc # "done"
    /\ \E p \in Edits(persisted) \ {persisted} : persisted' = p
    /\ editsLeft' = editsLeft - 1
    /\ UNCHANGED <<inputs, pc, config, startup, trace, segments_data, loads,
                   requests, stdout, exit>>

Next ==
    \/ ManagementCommand
    \/ LoadConfig
    \/ ApplyThemeOverride
    \/ ApplyNewApiOverrides
    \/ NoInputData
    \/ ReadInput
    \/ SkipDisabledSegment
    \/ CollectOtherSegment
    \/ CollectCostSegment
    \/ RenderStatusLine
    \/ ExternalEdit

(***************************************************************************)
(* Inputs of an invocation.                                                *)
(***************************************************************************)
Flags(theme, base_url, user_token, user_id, token_name, provider, per_unit) ==
    [mgmt : {"none"}, theme : theme, newapi_base_url : base_url,
     newapi_user_token : user_token, newapi_user_id : user_id,
     newapi_token_name : token_name, newapi_provider : provider,
     newapi_quota_per_unit : per_unit]

NoFlags == CHOOSE c \in Flags({None}, {None}, {None}, {None}, {None}, {None}, {None}) : TRUE
CredentialFlags ==
    [NoFlags EXCEPT !.newapi_base_url = Some("https://cli"),
                    !.newapi_user_token = Some("cli-token"),
                    !.newapi_user_id = Some("cli-id")]

Piped == [terminal |-> FALSE, data |-> "valid"]
Stdins == {Piped, [terminal |-> FALSE, data |-> "malformed"],
           [terminal |-> FALSE, data |-> "unreadable"],
           [terminal |-> TRUE, data |-> "valid"]}

Http(status, body, success, quota) ==
    [kind |-> "http", status |-> status, body |-> body, success |-> success,
     quota |-> quota]
Transport(kind) == [kind |-> kind, status |-> 0, body |-> "garbage",
                    success |-> FALSE, quota |-> 0]
Answer(quota) == Http(200, "json", TRUE, quota)

FailingRemotes ==
    {Transport("network"), Transport("timeout"), Http(500, "json", TRUE, 750000),
     Http(404, "garbage", FALSE, 0), Http(200, "garbage", TRUE, 750000),
     Http(200, "json", FALSE, 750000)}

Quotas ==
    {k * (QUOTA_PER_UNIT \div 400) : k \in -1..MaxQuotaIndex}
    \cup {-5000, 4000, 4999, 5001, 12345, 62500, 750000, 5000000}

\* option maps of a cost entry: f gives, per key, None (absent) or a value
MkOptions(f) == [k \in {x \in DOMAIN f : IsSome(f[x])} |-> Unwrap(f[k])]
OptionMaps(base_url, user_token, user_id, token_name, provider, timeout) ==
    {MkOptions(f) : f \in [base_url : base_url, user_token : user_token,
                           user_id : user_id, token_name : token_name,
                           provider : provider, timeout : timeout]}

FullOptions ==
    CHOOSE o \in OptionMaps({Some(JStr("https://cfg"))}, {Some(JStr("cfg-token"))},
                            {Some(JStr("cfg-id"))}, {None}, {None}, {None}) : TRUE

\* the segment lists of at most MaxSegments entries, one entry per id at
\* most, whose cost entry takes its options from costOptions
SegmentLists(costOptions) ==
    LET entries == {Entry(id, e, NoOptions) : id \in OtherIds, e \in BOOLEAN}
                   \cup {Entry(CostId, e, o) : e \in BOOLEAN, o \in costOptions}
    IN  UNION {{s \in [1..n -> entries] :
                   \A i, j \in 1..n : s[i].id = s[j].id => i = j} :
               n \in 0..MaxSegments}

Configs(costOptions) ==
    {[theme |-> "default", segments |-> s] : s \in SegmentLists(costOptions)}

CostOnly(options) ==
    [theme |-> "default", segments |-> <<Entry(CostId, TRUE, options)>>]

Inputs(clis, persisteds, stdins, remotes, edits) ==
    [cli : clis, persisted : persisteds, stdin : stdins, remote : remotes,
     editsLeft : edits]

\* every configuration layout, every input stream, every failure of the remote
PipelineInputs ==
    Inputs({NoFlags},
           {None} \cup {Some(c) : c \in Configs({NoOptions, FullOptions})},
           Stdins,
           FailingRemotes \cup {Answer(750000)},
           {0})

\* the management commands
ManagementInputs ==
    Inputs({[NoFlags EXCEPT !.mgmt = m] :
               m \in {"init", "print", "check", "config", "update", "patch"}},
           {None, Some(CostOnly(FullOptions))}, {Piped}, {Answer(750000)}, {0})

\* every combination of the CLI flags over configurations with and
\* without a cost entry, with and without each credential
OverrideInputs ==
    LET cfgOptions ==
            OptionMaps({None, Some(JStr("https://cfg"))}, {None, Some(JStr("cfg-token"))},
                       {None, Some(JStr("cfg-id"))}, {None}, {None}, {None})
            \cup OptionMaps({Some(JInt(1))}, {Some(JStr("cfg-token"))},
                            {Some(JStr("cfg-id"))}, {Some(JStr("cfg-name"))},
                            {Some(JStr("cfg-provider"))}, {Some(JInt(3))})
        cfgs == {CostOnly(o) : o \in cfgOptions}
                \cup {[theme |-> "default",
                       segments |-> <<Entry(AllOtherIds[1], TRUE, NoOptions)>>]}
    IN  Inputs(Flags({None, Some("nord")}, {None, Some("https://cli")},
                     {None, Some("cli-token")}, {None, Some("cli-id")},
                     {None, Some("cli-name")}, {None, Some("cli-provider")},
                     {None, Some(1000)}),
               {None} \cup {Some(c) : c \in cfgs},
               {Piped}, {Answer(750000), Transport("network")}, {0})

\* every answer of the remote to a fully configured cost segment
CostInputs ==
    LET cfgOptions ==
            OptionMaps({Some(JStr("https://cfg"))}, {Some(JStr("cfg-token"))},
                       {Some(JStr("cfg-id"))}, {None, Some(JStr(""))},
                       {None, Some(JStr("cfg-provider")), Some(JInt(1))}, {None})
        remotes ==
            {Answer(q) : q \in Quotas}
            \cup {Http(st, "json", TRUE, q) : st \in {201, 204, 302}, q \in {0, 750000}}
            \cup FailingRemotes
    IN  Inputs({NoFlags, [NoFlags EXCEPT !.newapi_provider = Some("cli-provider")]},
               {Some(CostOnly(o)) : o \in cfgOptions},
               {Piped}, remotes, {0})

\* every kind of timeout option, under edits of the file while main runs
TimeoutInputs ==
    LET cfgOptions ==
            OptionMaps({Some(JStr("https://cfg"))}, {Some(JStr("cfg-token"))},
                       {Some(JStr("cfg-id"))}, {None}, {None},
                       {None, Some(JInt(0)), Some(JInt(3)), Some(JInt(-3)),
                        Some(JFloat(2)), Some(JStr("10"))})
        cfgs == {CostOnly(o) : o \in cfgOptions}
                \cup {[theme |-> "default",
                       segments |-> <<Entry(AllOtherIds[1], TRUE, NoOptions)>>]}
    IN  Inputs({NoFlags, CredentialFlags,
                [CredentialFlags EXCEPT !.theme = Some("nord")]},
               {None} \cup {Some(c) : c \in cfgs},
               {Piped}, {Answer(750000), Transport("timeout")}, 0..MaxEdits)

AllInputs == PipelineInputs \cup ManagementInputs \cup OverrideInputs
             \cup CostInputs \cup TimeoutInputs

Init == InitFrom(AllInputs)

Spec == Init /\ [][Next]_vars

(***************************************************************************)
(* Vocabulary of the properties.                                           *)
(***************************************************************************)
\* an invocation that runs the pipeline: no management flag, piped input
Pipeline == cli.mgmt = "none" /\ ~stdin.terminal

Credentials == {"base_url", "user_token", "user_id"}

\* option k is configured: present, with a string value
Configured(options, k) == k \in DOMAIN options /\ options[k].t = "str"

\* the entries walked so far whose collect was invoked on the cost segment
CostWalks == {i \in 1..Len(trace) : trace[i].id = CostId /\ trace[i].invoked}

\* the cost segment was invoked with all three credentials configured
CostRequested ==
    \E i \in CostWalks :
        \A k \in Credentials : Configured(config.segments[i].options, k)

RemoteFails ==
    \/ remote.kind # "http"
    \/ remote.status \notin 200..299
    \/ remote.body # "json"
    \/ ~remote.success

\* the results of the first n entries that were enabled and returned one
RECURSIVE Present(_)
Present(n) ==
    IF n = 0 THEN <<>>
    ELSE IF config.segments[n].enabled /\ IsSome(trace[n].result)
         THEN Append(Present(n - 1),
                     [id |-> config.segments[n].id, data |-> Unwrap(trace[n].result)])
         ELSE Present(n - 1)

\* the printed line shows exactly the given results, in their order
Shows(line, results) ==
    /\ Len(line.items) = Len(results)
    /\ \A i \in 1..Len(results) :
          /\ line.items[i].id = results[i].id
          /\ line.items[i].primary = results[i].data.primary

IsDigit(c) == \E d \in 0..9 : DigitChar(d) = c
DigitVal(c) == CHOOSE d \in 0..9 : DigitChar(d) = c
AllDigits(s) == Len(s) > 0 /\ \A i \in 1..Len(s) : IsDigit(SubSeq(s, i, i))
RECURSIVE StrToNat(_)
StrToNat(s) == IF s = "" THEN 0
               ELSE 10 * StrToNat(SubSeq(s, 1, Len(s) - 1))
                    + DigitVal(SubSeq(s, Len(s), Len(s)))

\* text is digits, a point and exactly two digits
IsTwoDecimals(text) ==
    /\ Len(text) >= 4
    /\ SubSeq(text, Len(text) - 2, Len(text) - 2) = "."
    /\ AllDigits(SubSeq(text, 1, Len(text) - 3))
    /\ AllDigits(SubSeq(text, Len(text) - 1, Len(text)))
\* its value in hundredths
Cents(text) == 100 * StrToNat(SubSeq(text, 1, Len(text) - 3))
               + StrToNat(SubSeq(text, Len(text) - 1, Len(text)))

\* the value of a decimal text, in millionths (at most six decimals)
Micros(text) ==
    LET neg    == Len(text) > 0 /\ SubSeq(text, 1, 1) = "-"
        body   == IF neg THEN SubSeq(text, 2, Len(text)) ELSE text
        points == {i \in 1..Len(body) : SubSeq(body, i, i) = "."}
        point  == IF points = {} THEN Len(body) + 1 ELSE CHOOSE i \in points : TRUE
        whole  == SubSeq(body, 1, point - 1)
        frac   == SubSeq(body, point + 1, Len(body))
        value  == StrToNat(whole) * Pow10(6) + StrToNat(frac) * Pow10(6 - Len(frac))
    IN  IF neg THEN -value ELSE value

\* the primary text of every cost result obtained from quota q is p
PrimaryOf(q, p) ==
    \A i \in CostWalks :
        IsSome(trace[i].result) /\ remote.quota = q
            => Unwrap(trace[i].result).primary = p

(***************************************************************************)
(* C1: the list handed to the renderer and the printed line hold exactly   *)
(* the segments that are enabled and returned a result, in configuration   *)
(* order; the collect of a disabled segment is never invoked, and a        *)
(* disabled cost segment sends no GET request.                             *)
(***************************************************************************)
C1_EnabledResultsInOrder ==
    /\ Len(trace) <= Len(config.segments)
    /\ segments_data = Present(Len(trace))
    /\ \A i \in 1..Len(trace) :
          /\ trace[i].id = config.segments[i].id
          /\ ~config.segments[i].enabled => ~trace[i].invoked
    /\ (\A i \in 1..Len(config.segments) :
            config.segments[i].id = CostId => ~config.segments[i].enabled)
          => requests = <<>>
    /\ stdout # <<>> =>
          /\ Len(stdout) = 1
          /\ Len(trace) = Len(config.segments)
          /\ Shows(stdout[1], Present(Len(config.segments)))

C1_Witness ==
    /\ stdout # <<>>
    /\ Len(config.segments) = 3
    /\ ~config.segments[1].enabled /\ config.segments[1].id = CostId
    /\ trace[2].invoked /\ ~IsSome(trace[2].result)
    /\ IsSome(trace[3].result)
    /\ Len(stdout[1].items) = 1

(***************************************************************************)
(* C2: when base URL, user token or user id is not configured in the cost  *)
(* entry once the CLI overrides are applied, collect returns no result and *)
(* no GET request is sent, whatever the remote would answer.               *)
(***************************************************************************)
C2_MissingCredentialNoRequest ==
    \A i \in CostWalks :
        (\E k \in Credentials : ~Configured(config.segments[i].options, k))
            => /\ ~IsSome(trace[i].result)
               /\ requests = <<>>

C2_Witness ==
    /\ \E i \in CostWalks :
          /\ Configured(config.segments[i].options, "base_url")
          /\ Configured(config.segments[i].options, "user_token")
          /\ ~Configured(config.segments[i].options, "user_id")
    /\ IsSome(cli.newapi_base_url)
    /\ ~RemoteFails
    /\ pc = "done"

(***************************************************************************)
(* C3: on a network error, a timeout, a non-2xx status, an unparsable body *)
(* or success = false the cost segment returns no result, and the          *)
(* invocation still ends normally with the line of the other segments.     *)
(***************************************************************************)
C3_RemoteFailureIsNoResult ==
    RemoteFails =>
        /\ \A i \in CostWalks : ~IsSome(trace[i].result)
        /\ Pipeline /\ stdin.data = "valid" =>
              /\ exit # "err"
              /\ pc = "collect" =>
                    ENABLED (SkipDisabledSegment \/ CollectOtherSegment
                             \/ CollectCostSegment \/ RenderStatusLine)
              /\ pc = "done" =>
                    /\ exit = "ok"
                    /\ Len(stdout) = 1
                    /\ Shows(stdout[1], Present(Len(config.segments)))
                    /\ \A j \in 1..Len(stdout[1].items) :
                          stdout[1].items[j].id # CostId

C3_Witness ==
    /\ RemoteFails
    /\ CostRequested
    /\ requests # <<>>
    /\ pc = "done"
    /\ Len(stdout[1].items) = 2

(***************************************************************************)
(* C4: the primary text is "¥0" exactly when the quota is below 5000       *)
(* (quota / 500000 < 0.01); otherwise it is "¥" and quota / 500000 with    *)
(* exactly two decimals, the nearest hundredth.                            *)
(***************************************************************************)
C4_PrimaryText ==
    \A i \in CostWalks :
        IsSome(trace[i].result) =>
            LET primary == Unwrap(trace[i].result).primary
                amount  == SubSeq(primary, 2, Len(primary))
            IN  /\ SubSeq(primary, 1, 1) = Yen
                /\ primary = Yen \o "0" <=> remote.quota * 100 < QUOTA_PER_UNIT
                /\ remote.quota * 100 >= QUOTA_PER_UNIT =>
                      /\ IsTwoDecimals(amount)
                      /\ 2 * (Cents(amount) * (QUOTA_PER_UNIT \div 100) - remote.quota)
                            \in -(QUOTA_PER_UNIT \div 100)..(QUOTA_PER_UNIT \div 100)

C4_Witness ==
    /\ remote.quota * 100 = QUOTA_PER_UNIT
    /\ \E i \in CostWalks :
          IsSome(trace[i].result) /\ Unwrap(trace[i].result).primary = Yen \o "0.01"

(***************************************************************************)
(* C5 as stated: quota 0, 4000 and 12345 give "¥0", quota 5,000,000 gives  *)
(* "¥10.00" and quota 750,000 gives "¥1.50".                               *)
(***************************************************************************)
C5_AsStated ==
    /\ PrimaryOf(0, Yen \o "0")
    /\ PrimaryOf(4000, Yen \o "0")
    /\ PrimaryOf(12345, Yen \o "0")
    /\ PrimaryOf(5000000, Yen \o "10.00")
    /\ PrimaryOf(750000, Yen \o "1.50")

(***************************************************************************)
(* C5: quota 0 and 4000 give "¥0", quota 12345 (0.02469, not below 0.01)   *)
(* gives "¥0.02", quota 5,000,000 gives "¥10.00" and quota 750,000 gives   *)
(* "¥1.50".                                                                *)
(***************************************************************************)
C5_ListedQuotas ==
    /\ PrimaryOf(0, Yen \o "0")
    /\ PrimaryOf(4000, Yen \o "0")
    /\ PrimaryOf(12345, Yen \o "0.02")
    /\ PrimaryOf(5000000, Yen \o "10.00")
    /\ PrimaryOf(750000, Yen \o "1.50")

C5_Witness ==
    /\ remote.quota = 12345
    /\ \E i \in CostWalks :
          IsSome(trace[i].result) /\ Unwrap(trace[i].result).primary = Yen \o "0.02"

(***************************************************************************)
(* C6 as stated: in a pipeline invocation whose input record is unreadable *)
(* or malformed, or whose configuration could not be read at startup, no   *)
(* segment is collected, no status line is printed and the invocation ends *)
(* with an error.                                                          *)
(***************************************************************************)
StartupLoadFailed == startup.done /\ ~IsSome(startup.result)

C6_AsStated ==
    Pipeline /\ (stdin.data # "valid" \/ StartupLoadFailed) =>
        /\ trace = <<>>
        /\ stdout = <<>>
        /\ pc = "done" => exit = "err"

(***************************************************************************)
(* C6: in a pipeline invocation whose input record is unreadable or        *)
(* malformed no segment is collected, no status line is printed and the    *)
(* invocation ends with an error; a configuration that cannot be read at   *)
(* startup is replaced by the default configuration and, the input being   *)
(* valid, the invocation ends normally with its status line.               *)
(***************************************************************************)
C6_FatalInputDefaultConfig ==
    /\ Pipeline /\ stdin.data # "valid" =>
          /\ trace = <<>>
          /\ stdout = <<>>
          /\ requests = <<>>
          /\ pc = "done" => exit = "err"
    /\ Pipeline /\ StartupLoadFailed =>
          /\ pc = "theme" => config = DefaultConfig
          /\ stdin.data = "valid" =>
                /\ exit # "err"
                /\ pc = "done" => exit = "ok" /\ Len(stdout) = 1

C6_Witness ==
    /\ Pipeline
    /\ StartupLoadFailed
    /\ stdin.data = "malformed"
    /\ pc = "done"
    /\ exit = "err"

(***************************************************************************)
(* C7 as stated: once the overrides are applied, every option of the cost  *)
(* entry whose flag is present holds the flag's value, and every option    *)
(* whose flag is absent holds what the loaded configuration held.          *)
(***************************************************************************)
Loaded == IF IsSome(startup.result) THEN Unwrap(startup.result) ELSE DefaultConfig
\* the configuration the overrides are applied to
Themed == IF IsSome(cli.theme) THEN get_theme(Unwrap(cli.theme)) ELSE Loaded

CostOptionsOf(cfg) ==
    LET found == FindSegment(cfg.segments, CostId)
    IN  IF IsSome(found) THEN cfg.segments[Unwrap(found)].options ELSE NoOptions

Overridden(base) ==
    startup.done /\ pc \in {"stdin", "collect", "done"}
    /\ IsSome(FindSegment(config.segments, CostId)) =>
        \A f \in CliFlags :
            LET k == FlagOption(f)
            IN  IF IsSome(cli[f])
                THEN Get(CostOptionsOf(config), k) = Some(JStr(Unwrap(cli[f])))
                ELSE Get(CostOptionsOf(config), k) = Get(CostOptionsOf(base), k)

C7_AsStated == Overridden(Loaded)

(***************************************************************************)
(* C7: once the overrides are applied, every option of the cost entry      *)
(* whose flag is present holds the flag's value, and so does the field of  *)
(* the segment collected; every option whose flag is absent holds what the *)
(* configuration the overrides were applied to held: the theme's preset    *)
(* when a theme flag is given, the loaded configuration otherwise.         *)
(***************************************************************************)
C7_FlagsOverwriteOptions ==
    /\ Overridden(Themed)
    /\ \A i \in CostWalks : \A f \in CliFlags :
          IsSome(cli[f]) => trace[i].segment[FlagOption(f)] = cli[f]

C7_Witness ==
    /\ CostWalks # {}
    /\ IsSome(cli.theme)
    /\ IsSome(cli.newapi_provider)
    /\ ~IsSome(cli.newapi_token_name)
    /\ IsSome(startup.result)
    /\ Configured(CostOptionsOf(Loaded), "token_name")

(***************************************************************************)
(* C8 as stated: the timeout of a request is the integer `timeout` option  *)
(* of the cost entry of the configuration file as it is when the request   *)
(* is sent, and 5 when the file cannot be read, the entry or the option is *)
(* absent or the value is not an integer.                                  *)
(***************************************************************************)
TimeoutOption ==
    IF IsSome(persisted) THEN Get(CostOptionsOf(Unwrap(persisted)), "timeout")
    ELSE None

Sends == Len(requests') > Len(requests)

C8_AsStated ==
    [][Sends =>
         requests'[Len(requests')].timeout_secs =
            IF IsSome(TimeoutOption) /\ Unwrap(TimeoutOption).t = "int"
            THEN Unwrap(TimeoutOption).n ELSE DEFAULT_TIMEOUT_SECS]_vars

(***************************************************************************)
(* C8: the timeout of a request is the `timeout` option of the cost entry  *)
(* of the configuration file as it is when the request is sent, when that  *)
(* is a non-negative integer; it is 5 when the file cannot be read, the    *)
(* entry or the option is absent, or the value is not a non-negative       *)
(* integer.                                                                *)
(***************************************************************************)
C8_TimeoutFromFile ==
    [][Sends =>
         requests'[Len(requests')].timeout_secs =
            IF /\ IsSome(TimeoutOption)
               /\ Unwrap(TimeoutOption).t = "int"
               /\ Unwrap(TimeoutOption).n >= 0
            THEN Unwrap(TimeoutOption).n ELSE DEFAULT_TIMEOUT_SECS]_vars

C8_Witness ==
    /\ requests # <<>>
    /\ requests[1].timeout_secs = 7
    /\ Get(CostOptionsOf(config), "timeout") = Some(JInt(3))
    /\ startup.result # persisted

(***************************************************************************)
(* C9 as stated: a finished pipeline invocation that invoked the cost      *)
(* segment has read the configuration twice and sent one GET request; one  *)
(* that did not invoke it has read the configuration once.                 *)
(***************************************************************************)
C9_AsStated ==
    Pipeline /\ pc = "done" =>
        IF CostWalks # {}
        THEN loads = 2 /\ Len(requests) = 1
        ELSE loads = 1

(***************************************************************************)
(* C9: a finished pipeline invocation that invoked the cost segment with   *)
(* base URL, user token and user id configured has read the configuration  *)
(* twice (at startup and in collect) and sent exactly one GET request,     *)
(* whatever the answer; any other pipeline invocation has read it once     *)
(* and sent no request.                                                    *)
(***************************************************************************)
C9_ReadsAndRequests ==
    /\ Pipeline /\ pc = "done" =>
          IF CostRequested
          THEN loads = 2 /\ Len(requests) = 1
          ELSE loads = 1 /\ requests = <<>>
    /\ Pipeline => loads = (IF startup.done THEN 1 ELSE 0) + Len(requests)

C9_Witness ==
    /\ Pipeline
    /\ pc = "done"
    /\ CostRequested
    /\ RemoteFails
    /\ loads = 2

(***************************************************************************)
(* C10 as stated: with the three credentials configured and a 2xx answer   *)
(* with a parseable body and success = true, collect returns a result with *)
(* metadata cost = quota / 500000, the provider label (or "") as secondary *)
(* text and a provider metadata entry exactly when a label is configured.  *)
(***************************************************************************)
ResultFor(i) ==
    /\ IsSome(trace[i].result)
    /\ LET data    == Unwrap(trace[i].result)
           options == config.segments[i].options
       IN  /\ "cost" \in DOMAIN data.metadata
           /\ Micros(data.metadata["cost"]) * (QUOTA_PER_UNIT \div Pow10(5))
                 = remote.quota * 10
           /\ data.secondary = IF Configured(options, "provider")
                               THEN options["provider"].s ELSE ""
           /\ "provider" \in DOMAIN data.metadata <=> Configured(options, "provider")
           /\ Configured(options, "provider") =>
                 data.metadata["provider"] = options["provider"].s

AllConfigured(i) == \A k \in Credentials : Configured(config.segments[i].options, k)

C10_AsStated ==
    \A i \in CostWalks :
        AllConfigured(i) /\ ~RemoteFails => ResultFor(i)

(***************************************************************************)
(* C10: with the three credentials configured and an answer of status 200  *)
(* with a parseable body and success = true, collect returns a result with *)
(* metadata cost = quota / 500000, the provider label (or "") as secondary *)
(* text and a provider metadata entry exactly when a label is configured.  *)
(***************************************************************************)
C10_SuccessGivesResult ==
    \A i \in CostWalks :
        AllConfigured(i) /\ ~RemoteFails /\ remote.status = 200 => ResultFor(i)

C10_Witness ==
    /\ remote.quota = 12345
    /\ \E i \in CostWalks :
          /\ IsSome(trace[i].result)
          /\ Unwrap(trace[i].result).metadata["cost"] = "0.02469"
          /\ Unwrap(trace[i].result).secondary = "cli-provider"
====
